---- MODULE Spec2Model ----
(***************************************************************************)
(* Model of the geometry kernel (src/src/tuple.rs) and of the simulation   *)
(* step World::tick (src/src/main.rs) of raytracer-challenge.              *)
(*                                                                         *)
(* Every coordinate in the program is an f64.  An f64 is modelled as a     *)
(* binary floating-point number with round-to-nearest, ties-to-even, as    *)
(* IEEE 754 prescribes, but with a significand of Prec bits instead of 53  *)
(* and a smallest exponent of -FracBits instead of -1074: a number is the  *)
(* integer n standing for n * 2^-FracBits, and it is representable when    *)
(* |n| has at most Prec significant bits.  Every arithmetic operation      *)
(* computes the exact result and rounds it once, as the hardware does.     *)
(***************************************************************************)
EXTENDS Integers, Sequences, FiniteSets, TLC

\* Significand width of the modelled floating-point format (53 in an f64).
Prec == 8

\* The modelled format's smallest exponent is -FracBits (-1074 in an f64).
FracBits == 10

Abs(n) == IF n < 0 THEN -n ELSE n

Sign(n) == IF n < 0 THEN -1 ELSE 1

Max(i, j) == IF i >= j THEN i ELSE j

\* Number of bits of the natural number n (0 for 0).
RECURSIVE BitLen(_)
BitLen(n) == IF n = 0 THEN 0 ELSE 1 + BitLen(n \div 2)

\* floor(sqrt(n)) for a natural number n, by bisection on [lo, hi).
RECURSIVE IsqrtIn(_, _, _)
IsqrtIn(n, lo, hi) ==
    IF hi - lo <= 1 THEN lo
    ELSE LET mid == (lo + hi) \div 2
         IN  IF mid * mid <= n THEN IsqrtIn(n, mid, hi) ELSE IsqrtIn(n, lo, mid)

Isqrt(n) == IsqrtIn(n, 0, 2 ^ ((BitLen(n) + 1) \div 2))

\* The natural number mag, a count of units of 2^-shift of the grid, rounded
\* to the nearest representable number (ties to even); sticky tells that the
\* exact value lies strictly above mag (and below mag + 1).  shift >= 0.
RoundMag(mag, shift, sticky) ==
    LET u    == 2 ^ Max(shift, BitLen(mag) - Prec)
        q    == mag \div u
        rem  == mag % u
        up   == IF u = 1 THEN FALSE
                ELSE \/ 2 * rem > u
                     \/ 2 * rem = u /\ (sticky \/ q % 2 = 1)
    IN  ((IF up THEN q + 1 ELSE q) * u) \div (2 ^ shift)

\* Exponent and significand of a representable number: n = Mant(n) * 2^Expo(n).
Expo(n) == Max(BitLen(Abs(n)) - Prec, 0)

Mant(n) == Abs(n) \div (2 ^ Expo(n))

\* f64 addition, subtraction, multiplication and negation.
F64_add(a, b) == Sign(a + b) * RoundMag(Abs(a + b), 0, FALSE)

F64_sub(a, b) == Sign(a - b) * RoundMag(Abs(a - b), 0, FALSE)

F64_neg(a) == -a

F64_mul(a, b) ==
    LET m == Mant(a) * Mant(b)
        e == Expo(a) + Expo(b) - FracBits
        s == Sign(a) * Sign(b)
    IN  IF e >= 0 THEN s * RoundMag(m, 0, FALSE) * (2 ^ e)
        ELSE s * RoundMag(m, -e, FALSE)

\* f64::sqrt of a non-negative number, correctly rounded.  The significand
\* is scaled by 2^t (t of the parity that keeps the exponent even) to give
\* the root Prec + 1 bits or more before it is rounded.
F64_sqrt(a) ==
    IF a = 0 THEN 0
    ELSE LET m  == Mant(a)
             e  == Expo(a) + FracBits
             t0 == 2 * (Prec + 1) - BitLen(m) + 1
             t  == IF (e - t0) % 2 = 0 THEN t0 ELSE t0 + 1
             n  == m * (2 ^ t)
             r  == Isqrt(n)
             h  == (e - t) \div 2
         IN  IF h >= 0 THEN RoundMag(r, 0, r * r # n) * (2 ^ h)
             ELSE RoundMag(r, -h, r * r # n)

\* The f64 nearest to the integer k, and to the ratio num / den (den > 0).
F64_int(k) == Sign(k) * RoundMag(Abs(k) * (2 ^ FracBits), 0, FALSE)

F64_ratio(num, den) ==
    LET n   == Abs(num) * (2 ^ (FracBits + Prec + 1))
        q   == n \div den
    IN  Sign(num) * RoundMag(q, Prec + 1, q * den # n)

(***************************************************************************)
(* src/src/tuple.rs: Point, Vector, Scalar and their operators.  A Point   *)
(* and a Vector are records of three f64; a Scalar is one f64.             *)
(***************************************************************************)
Triple(x, y, z) == [x |-> x, y |-> y, z |-> z]

\* f64::EPSILON, the default epsilon and max_relative of relative_eq!.
F64_EPSILON == 2 ^ (FracBits - (Prec - 1))

\* approx::relative_eq!(a, b) on two finite f64.
relative_eq(a, b) ==
    LET abs_diff == Abs(F64_sub(a, b))
        largest  == IF Abs(b) > Abs(a) THEN Abs(b) ELSE Abs(a)
    IN  \/ a = b
        \/ abs_diff <= F64_EPSILON
        \/ abs_diff <= F64_mul(largest, F64_EPSILON)

Point_eq(p, q) ==
    relative_eq(p.x, q.x) /\ relative_eq(p.y, q.y) /\ relative_eq(p.z, q.z)

Vector_eq(v, w) ==
    relative_eq(v.x, w.x) /\ relative_eq(v.y, w.y) /\ relative_eq(v.z, w.z)

\* Vector + Vector with the z of the right operand lost (self.z + self.z).
Vector_add_lost_z(self, rhs) ==
    Triple(F64_add(self.x, rhs.x), F64_add(self.y, rhs.y), F64_add(self.z, self.z))

\* impl Add for Vector, impl Add for &Vector, impl Add<&Vector> for Vector.
Vector_add(self, rhs) ==
    Triple(F64_add(self.x, rhs.x), F64_add(self.y, rhs.y), F64_add(self.z, rhs.z))

RefVector_add(self, rhs) ==
    Triple(F64_add(self.x, rhs.x), F64_add(self.y, rhs.y), F64_add(self.z, rhs.z))

Vector_add_RefVector(self, rhs) ==
    Triple(F64_add(self.x, rhs.x), F64_add(self.y, rhs.y), F64_add(self.z, rhs.z))

\* Vector += Vector with rhs.y added to z as well (self.z += rhs.y).
Vector_add_assign_y_into_z(self, rhs) ==
    Triple(F64_add(self.x, rhs.x), F64_add(self.y, rhs.y), F64_add(self.z, rhs.y))

\* impl AddAssign for Vector: the value of self after self += rhs.
Vector_add_assign(self, rhs) ==
    Triple(F64_add(self.x, rhs.x), F64_add(self.y, rhs.y), F64_add(self.z, rhs.z))

\* impl Add<Vector> for Point.
Point_add(self, rhs) ==
    Triple(F64_add(self.x, rhs.x), F64_add(self.y, rhs.y), F64_add(self.z, rhs.z))

\* impl AddAssign<Vector> for Point: the value of self after self += rhs.
Point_add_assign(self, rhs) ==
    Triple(F64_add(self.x, rhs.x), F64_add(self.y, rhs.y), F64_add(self.z, rhs.z))

\* Point - Vector with the z coordinates added instead of subtracted.
Point_sub_Vector_added_z(self, rhs) ==
    Triple(F64_sub(self.x, rhs.x), F64_sub(self.y, rhs.y), F64_add(self.z, rhs.z))

\* impl Sub<Vector> for Point.
Point_sub_Vector(self, rhs) ==
    Triple(F64_sub(self.x, rhs.x), F64_sub(self.y, rhs.y), F64_sub(self.z, rhs.z))

\* impl Neg for Vector.
Vector_neg(self) == Triple(F64_neg(self.x), F64_neg(self.y), F64_neg(self.z))

\* impl Mul<Scalar> for Vector and for &Vector.
Vector_mul(self, rhs) ==
    Triple(F64_mul(self.x, rhs), F64_mul(self.y, rhs), F64_mul(self.z, rhs))

RefVector_mul(self, rhs) ==
    Triple(F64_mul(self.x, rhs), F64_mul(self.y, rhs), F64_mul(self.z, rhs))

\* Vector::magnitude.
magnitude(self) ==
    F64_sqrt(F64_add(F64_add(F64_mul(self.x, self.x), F64_mul(self.y, self.y)),
                     F64_mul(self.z, self.z)))

\* cross with rhs.y for rhs.x in the last product (self.y * rhs.y).
cross_wrong_z(self, rhs) ==
    Triple(F64_sub(F64_mul(self.y, rhs.z), F64_mul(self.z, rhs.y)),
           F64_sub(F64_mul(self.z, rhs.x), F64_mul(self.x, rhs.z)),
           F64_sub(F64_mul(self.x, rhs.y), F64_mul(self.y, rhs.y)))

\* Vector::cross.
cross(self, rhs) ==
    Triple(F64_sub(F64_mul(self.y, rhs.z), F64_mul(self.z, rhs.y)),
           F64_sub(F64_mul(self.z, rhs.x), F64_mul(self.x, rhs.z)),
           F64_sub(F64_mul(self.x, rhs.y), F64_mul(self.y, rhs.x)))

(***************************************************************************)
(* src/src/main.rs: the World and its tick.                                *)
(***************************************************************************)
WIDTH == 320

HEIGHT == 240

BOX_SIZE == 8

\* World::new().
World_new ==
    [proj |-> [position |-> Triple(F64_int(10), F64_int(100), F64_int(0)),
               velocity |-> Triple(F64_int(150), F64_int(-90), F64_int(0))],
     env  |-> [gravity |-> Triple(F64_int(0), F64_int(100), F64_int(0)),
               wind    |-> Triple(F64_int(-1), F64_int(0), F64_int(0))]]

\* The condition of the first if of tick, on the x coordinate of a position.
hits_x(position) ==
    position.x <= F64_int(0) \/ position.x >= F64_int(WIDTH - BOX_SIZE)

\* The condition of the second if of tick, on the y coordinate of a position.
hits_y(position) ==
    position.y <= F64_int(0) \/ position.y >= F64_int(HEIGHT - BOX_SIZE)

\* The two ifs of tick written as if / else if: the vertical check is
\* skipped when the horizontal one fired.
boundary_checks_else_if(proj) ==
    LET v0 == proj.velocity
    IN  IF hits_x(proj.position)
        THEN [v0 EXCEPT !.x = F64_mul(v0.x, F64_ratio(-4, 5)),
                        !.y = F64_mul(v0.y, F64_ratio(4, 5))]
        ELSE IF hits_y(proj.position)
        THEN [v0 EXCEPT !.x = F64_mul(v0.x, F64_ratio(4, 5)),
                        !.y = F64_mul(v0.y, F64_ratio(-4, 5))]
        ELSE v0

\* The two ifs of tick, one after the other: the velocity they leave.
boundary_checks(proj) ==
    LET v0 == proj.velocity
        v1 == IF hits_x(proj.position)
              THEN [v0 EXCEPT !.x = F64_mul(v0.x, F64_ratio(-4, 5)),
                              !.y = F64_mul(v0.y, F64_ratio(4, 5))]
              ELSE v0
    IN  IF hits_y(proj.position)
        THEN [v1 EXCEPT !.x = F64_mul(v1.x, F64_ratio(4, 5)),
                        !.y = F64_mul(v1.y, F64_ratio(-4, 5))]
        ELSE v1

\* The rest clamp without its else: gravity and wind added after the clamp.
rest_or_integrate_no_else(velocity, env, delta_t) ==
    Vector_add_assign(IF magnitude(velocity) < F64_int(1)
                      THEN Triple(F64_int(0), F64_int(0), F64_int(0))
                      ELSE velocity,
                      Vector_mul(RefVector_add(env.gravity, env.wind), delta_t))

\* The rest clamp applied after the integration instead of before it.
rest_or_integrate_clamp_last(velocity, env, delta_t) ==
    LET v == Vector_add_assign(velocity,
                               Vector_mul(RefVector_add(env.gravity, env.wind), delta_t))
    IN  IF magnitude(v) < F64_int(1)
        THEN Triple(F64_int(0), F64_int(0), F64_int(0))
        ELSE v

\* The if/else of tick on the magnitude: the velocity it leaves.
rest_or_integrate(velocity, env, delta_t) ==
    IF magnitude(velocity) < F64_int(1)
    THEN Triple(F64_int(0), F64_int(0), F64_int(0))
    ELSE Vector_add_assign(velocity,
                           Vector_mul(RefVector_add(env.gravity, env.wind), delta_t))

\* The position update without the elapsed time (position += velocity).
advance_unscaled(position, velocity, delta_t) ==
    Point_add_assign(position, velocity)

\* The last statement of tick: the position it leaves.
advance(position, velocity, delta_t) ==
    Point_add_assign(position, RefVector_mul(velocity, delta_t))

\* tick with the position updated first, from the velocity before the tick.
tick_position_first(self, delta_t) ==
    [self EXCEPT !.proj =
        [position |-> advance(self.proj.position, self.proj.velocity, delta_t),
         velocity |-> rest_or_integrate(boundary_checks(self.proj), self.env, delta_t)]]

\* World::tick: the World after one tick of delta_t seconds.
tick(self, delta_t) ==
    LET velocity == rest_or_integrate(boundary_checks(self.proj), self.env, delta_t)
    IN  [self EXCEPT !.proj = [position |-> advance(self.proj.position, velocity, delta_t),
                               velocity |-> velocity]]

(***************************************************************************)
(* The state: the World, and a record of the last call of tick.            *)
(***************************************************************************)
VARIABLES world, ticked, pre, delta, bounced, moves, op, args, out

vars == <<world, ticked, pre, delta, bounced, moves, op, args, out>>

\* Largest number of ticks of a positive elapsed time in a run (ticks of
\* zero elapsed time are not counted).
MaxMoves == 2

\* The elapsed times tick is called with, in seconds.
Durations == {0, F64_int(1), F64_int(2)}

\* The kernel's operators are applied to vectors of small integers up to
\* MaxInt in magnitude, to the vectors of the unit tests, and to vectors
\* with a coordinate of 2^Prec, the first f64 whose successor is 2 away.
MaxInt == 1

Huge == F64_int(2 ^ Prec)

SmallVectors ==
    {Triple(F64_int(x), F64_int(y), F64_int(z)) :
        x \in -MaxInt..MaxInt, y \in -MaxInt..MaxInt, z \in 0..MaxInt}

TestVectors ==
    {Triple(F64_int(1), F64_int(2), F64_int(3)),
     Triple(F64_int(2), F64_int(3), F64_int(4)),
     Triple(F64_int(-2), F64_int(3), F64_int(1)),
     Triple(F64_int(3), F64_int(-2), F64_int(5))}

HugeVectors ==
    {Triple(Huge, F64_int(0), F64_int(0)),
     Triple(-Huge, F64_int(1), F64_int(0)),
     Triple(F64_int(1), Huge, -Huge),
     Triple(F64_ratio(1, 2), F64_int(3), Huge)}

Vectors == SmallVectors \cup TestVectors \cup HugeVectors

Init ==
    /\ world = World_new
    /\ ticked = FALSE
    /\ pre = World_new.proj
    /\ delta = 0
    /\ bounced = World_new.proj.velocity
    /\ moves = 0
    /\ op = "none"
    /\ args = <<>>
    /\ out = <<>>

\* One pass of the event loop that reaches world.tick(delta_t).
Tick ==
    /\ \E delta_t \in Durations :
          /\ delta_t > 0 => moves < MaxMoves
          /\ world' = tick(world, delta_t)
          /\ delta' = delta_t
          /\ moves' = IF delta_t > 0 THEN moves + 1 ELSE moves
    /\ ticked' = TRUE
    /\ pre' = world.proj
    /\ bounced' = boundary_checks(world.proj)
    /\ UNCHANGED <<op, args, out>>

Next == Tick

Spec == Init /\ [][Next]_vars

\* Bodies on, beside and between the edges of the domain, in and out of the
\* z = 0 plane, at rest, slower than 1, at 1 and faster.
Positions ==
    {Triple(F64_int(x), F64_int(100), F64_int(0)) : x \in {-1, 0, 10, 312, 316}}
    \cup {Triple(F64_int(10), F64_int(y), F64_int(7)) : y \in {-1, 0, 232, 236}}
    \cup {Triple(F64_int(0), F64_int(0), F64_int(0)),
          Triple(F64_int(312), F64_int(232), F64_int(0)),
          Triple(F64_int(-1), F64_int(236), F64_int(7)),
          Triple(F64_int(316), F64_int(-1), F64_int(0))}

Velocities ==
    {Triple(F64_int(150), F64_int(-90), F64_int(0)),
     Triple(F64_int(0), F64_int(0), F64_int(0)),
     Triple(F64_int(1), F64_int(0), F64_int(0)),
     Triple(F64_int(0), F64_int(-1), F64_int(0)),
     Triple(F64_int(0), F64_int(0), F64_int(1)),
     Triple(F64_ratio(-1, 2), F64_ratio(1, 2), F64_ratio(1, 2)),
     Triple(F64_ratio(5, 4), F64_int(0), F64_int(0)),
     Triple(F64_int(-3), F64_int(4), F64_int(12))}

\* The World of World::new(), or one whose body is any of the bodies above
\* and that is left a single tick of positive elapsed time.
InitAnyBody ==
    /\ \/ world = World_new /\ moves = 0
       \/ /\ \E p \in Positions, v \in Velocities :
                world = [World_new EXCEPT !.proj = [position |-> p, velocity |-> v]]
          /\ moves = MaxMoves - 1
    /\ ticked = FALSE
    /\ pre = world.proj
    /\ delta = 0
    /\ bounced = world.proj.velocity
    /\ op = "none"
    /\ args = <<>>
    /\ out = <<>>

SpecAnyBody == InitAnyBody /\ [][Next]_vars

\* Each run of the kernel applies one operation to arguments of its choice.
\* a.cross(&b) and -(b.cross(&a)).
Cross ==
    /\ op = "none"
    /\ \E a \in Vectors, b \in Vectors :
          /\ args' = <<a, b>>
          /\ out' = <<cross(a, b), Vector_neg(cross(b, a))>>
    /\ op' = "cross"
    /\ UNCHANGED <<world, ticked, pre, delta, bounced, moves>>

\* (p + v) - v.
RoundTrip ==
    /\ op = "none"
    /\ \E p \in Vectors, v \in Vectors :
          /\ args' = <<p, v>>
          /\ out' = <<Point_sub_Vector(Point_add(p, v), v)>>
    /\ op' = "roundtrip"
    /\ UNCHANGED <<world, ticked, pre, delta, bounced, moves>>

\* a + b, b + a, (a + b) + c, a + (b + c), &a + &b and a + &b.
Add ==
    /\ op = "none"
    /\ \E a \in Vectors, b \in Vectors, c \in HugeVectors :
          /\ args' = <<a, b, c>>
          /\ out' = <<Vector_add(a, b), Vector_add(b, a),
                      Vector_add(Vector_add(a, b), c),
                      Vector_add(a, Vector_add(b, c)),
                      RefVector_add(a, b), Vector_add_RefVector(a, b)>>
    /\ op' = "add"
    /\ UNCHANGED <<world, ticked, pre, delta, bounced, moves>>

NextKernel == Cross \/ RoundTrip \/ Add

SpecKernel == Init /\ [][NextKernel]_vars

(***************************************************************************)
(* Properties of World::tick, checked under Spec.                          *)
(***************************************************************************)
Zero == Triple(F64_int(0), F64_int(0), F64_int(0))

\* C1: once a tick has left the velocity at exactly (0,0,0), every later
\* tick, whatever its elapsed time, leaves it at (0,0,0): gravity and wind
\* are not applied to a resting body.
C1_RestIsTerminal ==
    [][(ticked /\ world.proj.velocity = Zero) => world'.proj.velocity = Zero]_vars

\* A tick of positive elapsed time started from rest and ended at rest.
C1_Witness ==
    ticked /\ pre.velocity = Zero /\ delta > 0 /\ world.proj.velocity = Zero

\* C2: in every reachable state the position satisfies
\* 0 <= x <= WIDTH - BOX_SIZE and 0 <= y <= HEIGHT - BOX_SIZE.
C2_Contained ==
    /\ F64_int(0) <= world.proj.position.x
    /\ world.proj.position.x <= F64_int(WIDTH - BOX_SIZE)
    /\ F64_int(0) <= world.proj.position.y
    /\ world.proj.position.y <= F64_int(HEIGHT - BOX_SIZE)

\* C3: a tick of zero elapsed time leaves the three coordinates of the
\* position as they were.
C3_ZeroDeltaKeepsPosition ==
    (ticked /\ delta = 0) => world.proj.position = pre.position

\* A tick of zero elapsed time on a moving body outside the domain: the
\* velocity changed, the position did not.
C3_Witness ==
    /\ ticked /\ delta = 0
    /\ world.proj.velocity # pre.velocity
    /\ world.proj.velocity # Zero
    /\ world.proj.position = pre.position

\* C7: the velocity after the two boundary checks is decided by the two
\* conditions on the position before the tick, each on its own: x inverted
\* and damped, y damped when only the horizontal one holds; x damped, y
\* inverted and damped when only the vertical one holds; both in turn in a
\* corner, which multiplies each of x and y by -0.64 up to the rounding of
\* the two multiplications (5 units in the last place and one step of the
\* grid); unchanged when neither holds.
C7_Near(got, factor100, v) ==
    LET k == 5 * Abs(factor100)
        e == 2 ^ Prec
    IN  Abs(100 * got - factor100 * v)
            <= k * (Abs(v) \div e) + (k * (Abs(v) % e)) \div e + 101

C7_BoundaryTable ==
    ticked =>
        LET h  == pre.position.x <= F64_int(0) \/ pre.position.x >= F64_int(312)
            v  == pre.position.y <= F64_int(0) \/ pre.position.y >= F64_int(232)
            n  == F64_ratio(-4, 5)
            d  == F64_ratio(4, 5)
            vx == pre.velocity.x
            vy == pre.velocity.y
        IN  /\ bounced.z = pre.velocity.z
            /\ h /\ ~v => bounced.x = F64_mul(vx, n) /\ bounced.y = F64_mul(vy, d)
            /\ ~h /\ v => bounced.x = F64_mul(vx, d) /\ bounced.y = F64_mul(vy, n)
            /\ h /\ v => /\ bounced.x = F64_mul(F64_mul(vx, n), d)
                         /\ bounced.y = F64_mul(F64_mul(vy, d), n)
                         /\ C7_Near(bounced.x, -64, vx)
                         /\ C7_Near(bounced.y, -64, vy)
            /\ ~h /\ ~v => bounced.x = vx /\ bounced.y = vy

\* A tick that found a moving body in a corner.
C7_Witness ==
    /\ ticked
    /\ pre.position.x >= F64_int(312) /\ pre.position.y >= F64_int(232)
    /\ pre.velocity.x # 0 /\ pre.velocity.y # 0
    /\ bounced.x # F64_mul(pre.velocity.x, F64_ratio(-4, 5))

\* C8: if the velocity after the boundary checks has a magnitude below 1
\* the tick leaves the velocity at (0,0,0), gravity and wind not added;
\* otherwise it leaves that velocity plus (gravity + wind) * dt.
C8_RestOrIntegrate ==
    ticked =>
        IF magnitude(bounced) < F64_int(1)
        THEN world.proj.velocity = Zero
        ELSE world.proj.velocity =
                 Vector_add(bounced,
                            Vector_mul(Vector_add(world.env.gravity, world.env.wind),
                                       delta))

\* A tick of positive elapsed time that clamped a moving body to rest.
C8_Witness ==
    /\ ticked /\ delta > 0
    /\ bounced # Zero
    /\ magnitude(bounced) < F64_int(1)
    /\ world.proj.velocity = Zero

\* C9: the position after a tick is the position before it plus dt times the
\* velocity the same tick produced, whether or not the rest clamp fired.
C9_PositionFromNewVelocity ==
    ticked =>
        world.proj.position =
            Point_add(pre.position, Vector_mul(world.proj.velocity, delta))

\* A tick whose new velocity moves the body elsewhere than the old one would.
C9_Witness ==
    /\ ticked /\ delta > 0
    /\ world.proj.velocity # Zero
    /\ world.proj.position #
           Point_add(pre.position, Vector_mul(pre.velocity, delta))

\* C10: position.z = 0 and velocity.z = 0 in every reachable state.
C10_Planar ==
    world.proj.position.z = 0 /\ world.proj.velocity.z = 0

\* A tick of positive elapsed time that bounced, integrated and moved.
C10_Witness ==
    /\ ticked /\ delta > 0
    /\ hits_x(pre.position) \/ hits_y(pre.position)
    /\ world.proj.velocity # Zero
    /\ world.proj.position # pre.position
    /\ world.proj.position.z = 0 /\ world.proj.velocity.z = 0

(***************************************************************************)
(* Properties of the kernel, checked under SpecKernel.                     *)
(***************************************************************************)
\* The f64 sum of a and b is their exact sum, in every coordinate.
ExactSum(a, b) ==
    /\ F64_add(a.x, b.x) = a.x + b.x
    /\ F64_add(a.y, b.y) = a.y + b.y
    /\ F64_add(a.z, b.z) = a.z + b.z

\* C4: a.cross(b) is the negation of b.cross(a), coordinate by coordinate.
C4_CrossAnticommutative ==
    op = "cross" => out[1] = out[2] /\ Vector_eq(out[1], out[2])

\* The cross product of the unit test, (1,2,3) x (2,3,4) = (-1,2,-1).
C4_Witness ==
    /\ op = "cross"
    /\ args = <<Triple(F64_int(1), F64_int(2), F64_int(3)),
                Triple(F64_int(2), F64_int(3), F64_int(4))>>
    /\ out[1] = Triple(F64_int(-1), F64_int(2), F64_int(-1))

\* C5 as stated: (p + v) - v == p for all Points p and Vectors v.
C5_RoundTripAlways ==
    op = "roundtrip" => Point_eq(out[1], args[1])

\* C5 as amended: (p + v) - v == p whenever the sum p + v is computed
\* without rounding error in every coordinate.
C5_RoundTripWhenExact ==
    (op = "roundtrip" /\ ExactSum(args[1], args[2])) => Point_eq(out[1], args[1])

\* The round trip of the unit test's operands, (3,-2,5) + (-2,3,1).
C5_Witness ==
    /\ op = "roundtrip"
    /\ args = <<Triple(F64_int(3), F64_int(-2), F64_int(5)),
                Triple(F64_int(-2), F64_int(3), F64_int(1))>>
    /\ ExactSum(args[1], args[2])
    /\ out[1] = args[1]

\* C6 as stated: a + b == b + a and (a + b) + c == a + (b + c) for all
\* Vectors, and the three forms of + give the same sum.
C6_AddLawsAlways ==
    op = "add" =>
        /\ Vector_eq(out[1], out[2])
        /\ Vector_eq(out[3], out[4])
        /\ out[5] = out[1] /\ out[6] = out[1]

\* C6 as amended: a + b == b + a for all Vectors and the three forms of +
\* give the same sum; (a + b) + c == a + (b + c) whenever the four sums
\* a + b, (a + b) + c, b + c and a + (b + c) are computed without rounding
\* error.
C6_AddLawsWhenExact ==
    op = "add" =>
        /\ Vector_eq(out[1], out[2])
        /\ out[5] = out[1] /\ out[6] = out[1]
        /\ ( /\ ExactSum(args[1], args[2])
             /\ ExactSum(out[1], args[3])
             /\ ExactSum(args[2], args[3])
             /\ ExactSum(args[1], Vector_add(args[2], args[3])) )
           => Vector_eq(out[3], out[4])

\* Three vectors with no zero coordinate among the sums, added exactly.
C6_Witness ==
    /\ op = "add"
    /\ ExactSum(args[1], args[2])
    /\ ExactSum(out[1], args[3])
    /\ ExactSum(args[2], args[3])
    /\ ExactSum(args[1], Vector_add(args[2], args[3]))
    /\ args[1] # args[2]
    /\ out[1].x # 0 /\ out[1].y # 0 /\ out[1].z # 0
    /\ out[3] = out[4] /\ out[3] # out[1]
====
